---- MODULE Spec2Model ----
(***************************************************************************)
(* Model of the polling engine of the Victron QW add-on:                   *)
(* VictronDataUpdateCoordinator._async_update_data (sensor.py) run over    *)
(* the register catalog of const.py against a Modbus transport.            *)
(*                                                                         *)
(* Spec is the engine.  One poll cycle is StartCycle, one                   *)
(* ProcessDescription step per catalog entry (one iteration of the "for    *)
(* description in self._descriptions" loop), then FinishCycle (reconnect   *)
(* heuristic, derived value, defaults, return).  The transport is the      *)
(* environment: every probe's response is chosen by it.                    *)
(*                                                                         *)
(* SpecDecode exercises the decoder of the loop body on its own, over the  *)
(* 16-bit words.  SpecSetup is the configuration flow (config_flow.py) and *)
(* the set-up of the sensor platform (sensor.py, async_setup_entry).       *)
(*                                                                         *)
(* Numbers: a snapshot value is the record [n, d] standing for n/d.  A     *)
(* Python int has d = 1; a value scaled by the multiplier 0.1 (0.01) has   *)
(* d = 10 (100).  The float rounding error of the product is below 1e-12   *)
(* relative and is not modelled.                                           *)
(***************************************************************************)
EXTENDS Integers, Sequences, FiniteSets, TLC

VARIABLES
    fail_counts,       \* self._fail_counts: dict address -> consecutive failures
    suppressed,        \* self._suppressed: set of addresses
    data,              \* the cycle's dict "data"; after the return, the snapshot
    failures,          \* the cycle-level counter "failures"
    pc,                \* "init" (no cycle yet), "run" (inside a cycle), "done"
    idx,               \* position of the for loop in self._descriptions
    mode,              \* transport: link state during the current cycle
    fault,             \* transport: what is unreliable in this run, the link
                       \*   or the register of one measurement (its key)
    attempts,          \* the list "attempts" of the last loop iteration
    chosen_label,      \* index in attempts of chosen_result (0: None)
    alt_address_used,  \* alt_address_used of the last iteration (-1: None)
    reads,             \* transport read calls issued by the last step
    log,               \* diagnostics emitted by the last step
    clientOps,         \* client.close()/connect() calls of the cycle
    decoded,           \* history: keys stored into data by this cycle's loop
    prevDecoded,       \* history: the same for the cycle before
    streak,            \* history: address -> consecutive attempted cycles in
                       \*   which every probe of its measurement failed
    nAttempted,        \* history: measurements probed in this cycle
    nFailed,           \* history: of those, the ones with no non-error response
    clean,             \* history: every probe of this cycle so far returned
                       \*   the words asked for
    \* the decoder exercised on its own (SpecDecode)
    dec_in,            \* description and register list handed to the decoder
    dec_out,           \* what it stored for them
    \* configuration and set-up (SpecSetup)
    user_input,        \* what the last flow step was submitted with
    flow_result,       \* what that step returned
    entry,             \* the config entry: data and options
    setup_state,       \* how async_setup_entry of the sensor platform ended
    final_descriptions,\* the catalog it handed to the coordinator
    entities,          \* unique ids handed to async_add_entities
    first_reads,       \* transport read calls of the first refresh
    \* the entities (SpecEntity)
    coordinator,       \* what an entity reads of its coordinator: data and
                       \*   last_update_success
    hass_state         \* the state last written by an entity

engineVars == <<fail_counts, suppressed, data, failures, pc, idx, mode, fault,
                attempts, chosen_label, alt_address_used, reads, log, clientOps,
                decoded, prevDecoded, streak, nAttempted, nFailed, clean>>

decodeVars == <<dec_in, dec_out>>

setupVars == <<user_input, flow_result, entry, setup_state, final_descriptions,
               entities, first_reads>>

entityVars == <<coordinator, hass_state>>

vars == <<engineVars, decodeVars, setupVars, entityVars>>

-----------------------------------------------------------------------------
(* Bounds *)

\* Longest register list a non-error response carries (0..MaxRegs words).
MaxRegs == 2

\* The decoder is given the 32-bit values whose words lie within Spread of
\* the ends and of the middle (the sign bit) of the 16-bit range; the options
\* step is submitted with the numbers within Spread of the ends of the
\* identifier range and of the default identifiers.
Spread == 3

\* The numbers typed into the device identifier box run from -NegTyped to
\* MaxTyped.
MaxTyped == 250
NegTyped == 2

-----------------------------------------------------------------------------
(* const.py *)

SLAVE_ID == 21

\* 25.0
DEFAULT_BATTERY_TEMPERATURE_C == [n |-> 250, d |-> 10]

\* multipliers 1.0, 0.1, 0.01
One == [n |-> 1, d |-> 1]
Tenth == [n |-> 1, d |-> 10]
Hundredth == [n |-> 1, d |-> 100]

\* VictronSensorDescription with the fields the engine reads.
VictronSensorDescription(key, register, data_type, multiplier, slave_id) ==
    [key |-> key, register |-> register, data_type |-> data_type,
     multiplier |-> multiplier, slave_id |-> slave_id]

GRID_SENSORS ==
    << VictronSensorDescription("victron_qw_grid_l1", 820, "int16", One, 100),
       VictronSensorDescription("victron_qw_grid_l2", 821, "int16", One, 100),
       VictronSensorDescription("victron_qw_grid_l3", 822, "int16", One, 100),
       VictronSensorDescription("victron_qw_grid_frequency", 2644, "uint16", Hundredth, SLAVE_ID),
       VictronSensorDescription("victron_qw_input_voltage_phase_1", 3, "uint16", Tenth, 227),
       VictronSensorDescription("victron_qw_input_voltage_phase_2", 4, "uint16", Tenth, 227),
       VictronSensorDescription("victron_qw_input_voltage_phase_3", 5, "uint16", Tenth, 227),
       VictronSensorDescription("victron_qw_ac_consumption_l1", 817, "uint16", One, 100),
       VictronSensorDescription("victron_qw_ac_consumption_l2", 818, "uint16", One, 100),
       VictronSensorDescription("victron_qw_ac_consumption_l3", 819, "uint16", One, 100) >>

BATTERY_SENSORS ==
    << VictronSensorDescription("victron_qw_battery_voltage", 840, "uint16", Tenth, 100),
       VictronSensorDescription("victron_qw_battery_current", 841, "int16", Tenth, 100),
       VictronSensorDescription("victron_qw_battery_temperature", 262, "int16", Tenth, 225),
       VictronSensorDescription("victron_qw_battery_power", 0, "int16", One, 100),
       VictronSensorDescription("victron_qw_battery_soc", 843, "uint16", One, 100) >>

PV_SENSORS ==
    << VictronSensorDescription("total_pv_power", 1052, "int32", One, SLAVE_ID) >>

-----------------------------------------------------------------------------
(* sensor.py, async_setup_entry: the catalog handed to the coordinator *)

\* Mutant: the copy made without the new identifier.
M_ReplaceKeepsSlave(description, configured_slave_id) == description

\* dataclasses.replace(description, slave_id=configured_slave_id)
ReplaceSlave(description, configured_slave_id) ==
    [description EXCEPT !.slave_id = configured_slave_id]

FinalDescriptions(configured_slave_id) ==
    GRID_SENSORS \o BATTERY_SENSORS \o
    (IF configured_slave_id = SLAVE_ID
        THEN PV_SENSORS
        ELSE [i \in 1..Len(PV_SENSORS) |-> ReplaceSlave(PV_SENSORS[i], configured_slave_id)])

\* self._descriptions, for the default device identifier
descriptions == FinalDescriptions(SLAVE_ID)

Addresses == {descriptions[i].register : i \in 1..Len(descriptions)}

-----------------------------------------------------------------------------
(* The transport (pymodbus client), as the engine sees it *)

\* A read returns a response object or raises; try_read turns a raised
\* exception into a returned value.
ExcResp == [kind |-> "exception", exception_code |-> 0, registers |-> <<>>]
ErrResp(code) == [kind |-> "error", exception_code |-> code, registers |-> <<>>]
OkResp(regs) == [kind |-> "ok", exception_code |-> 0, registers |-> regs]

\* Content of the device's register banks in the checked runs: battery
\* voltage 48.3 V and current -10.2 A at their documented input registers,
\* other words spread over both halves of the 16-bit range.
Word(fn, addr) ==
    CASE fn = "input" /\ addr = 840 -> 483
      [] fn = "input" /\ addr = 841 -> 65434
      [] OTHER -> (addr * 37 + (IF fn = "holding" THEN 32768 ELSE 0)) % 65536

Image(fn, addr, k) == [i \in 1..k |-> Word(fn, addr + i - 1)]

\* What a probe can come back with.  A run has one source of faults.  When
\* it is the link, a cycle finds the link up, or every request answered by
\* the gateway with exception code 10 ("gw"), or every request raising a
\* connection exception ("exc").  When it is one measurement's register, the
\* link is up and that measurement's probes may each raise, return an
\* exception response, or return 0..MaxRegs words.  Every other probe
\* returns the words asked for.
Modes == {"up", "gw", "exc"}
FlakyKeys == {"victron_qw_battery_voltage", "victron_qw_battery_current", "total_pv_power"}
Faults == FlakyKeys \cup {"link"}
ExceptionCodes == {2, 10}

ModesOf(f) == IF f = "link" THEN Modes ELSE {"up"}

ProbeOutcomes(description, fn, addr, count) ==
    IF mode = "gw" THEN {ErrResp(10)}
    ELSE IF mode = "exc" THEN {ExcResp}
    ELSE IF description.key = fault
         THEN {ExcResp} \cup {ErrResp(c) : c \in ExceptionCodes}
                        \cup {OkResp(Image(fn, addr, k)) : k \in 0..MaxRegs}
         ELSE {OkResp(Image(fn, addr, count))}

isException(res) == res.kind = "exception"
isError(res) == res.kind = "error"

-----------------------------------------------------------------------------
(* sensor.py, _async_update_data: one loop iteration *)

EmptyMap == [x \in {} |-> 0]

Get(map, k, default) == IF k \in DOMAIN map THEN map[k] ELSE default

RegCount(description) ==
    IF description.data_type \in {"int32", "uint32"} THEN 2 ELSE 1

\* Mutant: the candidates at base_address only.
M_CandidatesNoAlt(description) ==
    << [fn |-> "input", addr |-> description.register],
       [fn |-> "holding", addr |-> description.register] >>

\* The candidate probes in the order the code issues them.  A label
\* f"{fn}@{addr}" is kept as the pair it is formatted from and parsed back to.
Candidates(description) ==
    LET base_address == description.register IN
    << [fn |-> "input", addr |-> base_address],
       [fn |-> "holding", addr |-> base_address] >> \o
    (IF base_address > 0
        THEN << [fn |-> "input", addr |-> base_address - 1],
                [fn |-> "holding", addr |-> base_address - 1] >>
        ELSE << >>)

\* Mutant: try_read without its except clause; what the call raises leaves
\* the loop body.
M_TryReadCatchesNothing(outcome) ==
    [res |-> outcome, escapes |-> outcome.kind = "exception"]

\* try_read: the client call inside "try: ... except Exception as exc:
\* return exc".  Whatever the call raises comes back as a value; nothing
\* escapes.
try_read(outcome) == [res |-> outcome, escapes |-> FALSE]

\* attempts: (label, result) for every candidate; resp[i] is what the
\* transport answers to the i-th read call.
Attempts(description, resp) ==
    LET c == Candidates(description) IN
    [i \in 1..Len(c) |-> [label |-> c[i], res |-> try_read(resp[i]).res]]

\* Whether an exception raised by one of the read calls leaves the loop body.
Escapes(description, resp) ==
    \E i \in 1..Len(Candidates(description)) : try_read(resp[i]).escapes

\* The read calls try_read issues for the candidates: all of them, before
\* any result is looked at.
ReadCalls(description) ==
    LET c == Candidates(description) IN
    { [fn |-> c[i].fn, addr |-> c[i].addr, count |-> RegCount(description),
       slave |-> description.slave_id, key |-> description.key] : i \in 1..Len(c) }

\* for label, res in attempts: the first that is neither an exception nor an
\* error response (0: chosen_result stays None).
Acceptable(res) == ~isException(res) /\ ~isError(res)

ChosenIndex(att) ==
    IF \E i \in 1..Len(att) : Acceptable(att[i].res)
       THEN CHOOSE i \in 1..Len(att) :
                /\ Acceptable(att[i].res)
                /\ \A j \in 1..(i - 1) : ~Acceptable(att[j].res)
       ELSE 0

\* Mutant: the accepted label's address is compared with itself.
M_AltNeverFlagged(att, ci, base_address) ==
    IF ci # 0 /\ att[ci].label.addr # att[ci].label.addr THEN att[ci].label.addr ELSE -1

AltAddressUsed(att, ci, base_address) ==
    IF ci # 0 /\ att[ci].label.addr # base_address THEN att[ci].label.addr ELSE -1

\* fc_summary: the exception codes of the attempts that are error responses.
FcSummary(att) ==
    { att[i].res.exception_code : i \in { j \in 1..Len(att) : isError(att[j].res) } }

\* "count <= 3 or count % 3 == 0"
LogCadence(count) == count <= 3 \/ count % 3 = 0

SuppressThreshold == 12

\* Mutant: the failure is counted under the address of the last candidate
\* tried (base_address - 1).
M_FailCountsKeyedByLastProbe(fc, base_address) ==
    ((base_address - 1) :> (Get(fc, base_address - 1, 0) + 1)) @@ fc

\* self._fail_counts[base_address] = self._fail_counts.get(base_address, 0) + 1
FailCountsOnFailure(fc, base_address) ==
    (base_address :> (Get(fc, base_address, 0) + 1)) @@ fc

\* Mutant: the threshold test written with > instead of >=.
M_SuppressedLate(sup, base_address, count) ==
    IF count > 12 THEN sup \cup {base_address} ELSE sup

\* Mutant: the suppressed set is replaced instead of added to.
M_SuppressedReplaced(sup, base_address, count) ==
    IF count >= 12 THEN {base_address} ELSE sup

\* if self._fail_counts[base_address] >= 12: self._suppressed.add(base_address)
SuppressedOnFailure(sup, base_address, count) ==
    IF count >= SuppressThreshold THEN sup \cup {base_address} ELSE sup

\* if any('ex=10' in s for s in fc_summary): failures += 1
FailuresOnFailure(f, fc_summary) ==
    IF 10 \in fc_summary THEN f + 1 ELSE f

\* Mutant: the success path leaves the counter as it is.
M_NoResetOnSuccess(fc, base_address) == fc

\* if base_address in self._fail_counts: self._fail_counts[base_address] = 0
FailCountsOnSuccess(fc, base_address) ==
    IF base_address \in DOMAIN fc THEN [fc EXCEPT ![base_address] = 0] ELSE fc

\* A Python int that may not fit TLC's 32-bit integers is kept in two limbs:
\* [hi, lo] stands for hi * 65536 + lo, with 0 <= lo < 65536 and hi of either
\* sign.
Wide(hi, lo) == [hi |-> hi, lo |-> lo]

\* x >= 0x80000000
WideGE80000000(x) == x.hi >= 32768

\* x - 0x100000000
WideMinus100000000(x) == Wide(x.hi - 65536, x.lo)

\* Mutant: the two words taken low word first.
M_Decode32LowFirst(high, low, data_type) ==
    LET raw32 == Wide(low, high) IN
    IF data_type = "int32"
       THEN (IF WideGE80000000(raw32) THEN WideMinus100000000(raw32) ELSE raw32)
       ELSE raw32

\* high, low = regs[0], regs[1]; raw32 = (high << 16) | low;
\* int32: raw32 - 0x100000000 if raw32 >= 0x80000000 else raw32.
\* For 16-bit words the shift puts high in the upper limb and the or puts
\* low in the lower one.
Decode32(high, low, data_type) ==
    LET raw32 == Wide(high, low) IN
    IF data_type = "int32"
       THEN (IF WideGE80000000(raw32) THEN WideMinus100000000(raw32) ELSE raw32)
       ELSE raw32

\* Mutant: the sign test written with > instead of >=.
M_Decode16SignLate(raw, data_type) ==
    IF data_type = "uint16"
       THEN raw
       ELSE (IF raw > 32768 THEN raw - 65536 ELSE raw)

\* raw = regs[0]; uint16: raw; else raw - 0x10000 if raw >= 0x8000 else raw
Decode16(raw, data_type) ==
    IF data_type = "uint16"
       THEN raw
       ELSE (IF raw >= 32768 THEN raw - 65536 ELSE raw)

\* The value of the loop body's "value" as one integer, for the catalog's
\* data types (a uint32 of 0x80000000 and more is beyond TLC's integers; no
\* catalog entry is a uint32).
Decode(regs, data_type) ==
    IF data_type \in {"uint32", "int32"}
       THEN LET value == Decode32(regs[1], regs[2], data_type)
            IN  value.hi * 65536 + value.lo
       ELSE Decode16(regs[1], data_type)

\* if description.multiplier != 1.0: value = float(value) * multiplier
ApplyMultiplier(value, multiplier) ==
    IF multiplier # One
       THEN [n |-> value * multiplier.n, d |-> multiplier.d]
       ELSE [n |-> value, d |-> 1]

\* Whether the accepted response gets as far as data[description.key] = value.
Decodable(regs, data_type) ==
    /\ Len(regs) > 0
    /\ (data_type \in {"uint32", "int32"} => Len(regs) >= 2)

FailureEvents(description, att, count) ==
    LET base_address == description.register
        fc_summary == FcSummary(att)
        ev(name) == [ev |-> name, register |-> base_address, count |-> count]
    IN  (IF fc_summary # {}
            THEN (IF LogCadence(count) THEN {ev("read_failed")} ELSE {})
            ELSE {ev("no_response")})
        \cup (IF count >= SuppressThreshold THEN {ev("suppressed")} ELSE {})
        \cup (IF 10 \in fc_summary /\ LogCadence(count) THEN {ev("gateway")} ELSE {})
        \cup (IF description.key = "total_pv_power" /\ count >= 5
                 THEN {ev("pv_failed")} ELSE {})

SuccessEvents(description, att, ci, old_count) ==
    LET base_address == description.register
        regs == att[ci].res.registers
        ev(name) == [ev |-> name, register |-> base_address, count |-> old_count]
    IN  (IF old_count > 0 THEN {ev("recovered")} ELSE {})
        \cup (IF Len(regs) = 0 THEN {ev("empty")} ELSE {})
        \cup (IF Len(regs) = 1 /\ description.data_type \in {"uint32", "int32"}
                 THEN {ev("short32")} ELSE {})
        \cup (IF Decodable(regs, description.data_type)
                 /\ AltAddressUsed(att, ci, base_address) # -1
                 THEN {ev("alt_address")} ELSE {})

\* Mutant: a measurement that has just recovered is stored from the next
\* cycle on only.
M_DataSkippedAfterFailure(d, description, regs) ==
    IF Decodable(regs, description.data_type)
       /\ Get(fail_counts, description.register, 0) = 0
       THEN (description.key :>
                ApplyMultiplier(Decode(regs, description.data_type),
                                description.multiplier)) @@ d
       ELSE d

\* data after the success path of one iteration
DataOnSuccess(d, description, regs) ==
    IF Decodable(regs, description.data_type)
       THEN (description.key :>
                ApplyMultiplier(Decode(regs, description.data_type),
                                description.multiplier)) @@ d
       ELSE d

\* Transport-side bookkeeping of one probed measurement.
OkRegs(att) ==
    { att[i].res.registers : i \in { j \in 1..Len(att) : att[j].res.kind = "ok" } }

Skip ==
    /\ idx' = idx + 1
    /\ attempts' = << >>
    /\ chosen_label' = 0
    /\ alt_address_used' = -1
    /\ reads' = {}
    /\ log' = {}
    /\ UNCHANGED <<fail_counts, suppressed, data, failures, pc, mode, fault,
                   clientOps, decoded, prevDecoded, streak, nAttempted, nFailed,
                   clean>>
    /\ UNCHANGED <<decodeVars, setupVars, entityVars>>

\* Every probe of the step returned the words asked for.
AllAsAsked(description, att) ==
    \A i \in 1..Len(att) :
        att[i].res = OkResp(Image(att[i].label.fn, att[i].label.addr,
                                  RegCount(description)))

\* An exception leaves the loop body: the function ends in its handler
\* "except ConnectionException: raise UpdateFailed" or with the exception
\* itself, and returns no dict.
Abort(description) ==
    /\ pc' = "failed"
    /\ idx' = 0
    /\ data' = EmptyMap
    /\ attempts' = << >>
    /\ chosen_label' = 0
    /\ alt_address_used' = -1
    /\ reads' = ReadCalls(description)
    /\ log' = {}
    /\ clean' = FALSE
    /\ UNCHANGED <<fail_counts, suppressed, failures, mode, fault, clientOps,
                   decoded, prevDecoded, streak, nAttempted, nFailed>>
    /\ UNCHANGED <<decodeVars, setupVars, entityVars>>

Probe(description, resp) ==
    LET base_address == description.register
        att == Attempts(description, resp)
        ci == ChosenIndex(att)
        count == Get(fail_counts, base_address, 0) + 1
    IN  /\ idx' = idx + 1
        /\ attempts' = att
        /\ reads' = ReadCalls(description)
        /\ chosen_label' = ci
        /\ alt_address_used' = AltAddressUsed(att, ci, base_address)
        /\ IF ci = 0
              THEN /\ fail_counts' = FailCountsOnFailure(fail_counts, base_address)
                   /\ suppressed' = SuppressedOnFailure(suppressed, base_address, count)
                   /\ failures' = FailuresOnFailure(failures, FcSummary(att))
                   /\ log' = FailureEvents(description, att, count)
                   /\ UNCHANGED <<data, decoded>>
              ELSE /\ fail_counts' = FailCountsOnSuccess(fail_counts, base_address)
                   /\ data' = DataOnSuccess(data, description, att[ci].res.registers)
                   /\ decoded' = IF Decodable(att[ci].res.registers, description.data_type)
                                    THEN decoded \cup {description.key} ELSE decoded
                   /\ log' = SuccessEvents(description, att, ci,
                                           Get(fail_counts, base_address, 0))
                   /\ UNCHANGED <<suppressed, failures>>
        /\ streak' = [streak EXCEPT ![base_address] = IF OkRegs(att) = {} THEN @ + 1 ELSE 0]
        /\ nAttempted' = nAttempted + 1
        /\ nFailed' = IF OkRegs(att) = {} THEN nFailed + 1 ELSE nFailed
        /\ clean' = (clean /\ AllAsAsked(description, att))
        /\ UNCHANGED <<pc, mode, fault, clientOps, prevDecoded>>
        /\ UNCHANGED <<decodeVars, setupVars, entityVars>>

\* Mutant: the loop body without its test of the suppressed set.
M_IsProbedIgnoresSuppressed(description, sup) ==
    description.key # "victron_qw_battery_power"

\* Whether the loop body gets past its two "continue"s for this description.
IsProbed(description, sup) ==
    /\ description.key # "victron_qw_battery_power"
    /\ description.register \notin sup

ProcessDescription ==
    /\ pc = "run"
    /\ idx <= Len(descriptions)
    /\ LET description == descriptions[idx] IN
       IF ~IsProbed(description, suppressed)
          THEN Skip
          ELSE \E r1 \in ProbeOutcomes(description, "input", description.register, RegCount(description)),
                  r2 \in ProbeOutcomes(description, "holding", description.register, RegCount(description)),
                  r3 \in ProbeOutcomes(description, "input", description.register - 1, RegCount(description)),
                  r4 \in ProbeOutcomes(description, "holding", description.register - 1, RegCount(description)) :
                  IF Escapes(description, <<r1, r2, r3, r4>>)
                     THEN Abort(description)
                     ELSE Probe(description, <<r1, r2, r3, r4>>)

-----------------------------------------------------------------------------
(* sensor.py, _async_update_data: start and end of a cycle *)

\* Mutant: the dict of the previous cycle is reused.
M_DataKept(old) == old

\* data = {}
NewData(old) == EmptyMap

\* Mutant: the read calls awaited (handed to an executor), one await point
\* per loop iteration.
M_AwaitAtEveryRead == 1..16

\* The positions of the loop at which the coroutine awaits, that is, hands
\* the event loop to another task (a timer or a requested refresh starting
\* another _async_update_data).  The body has no await: the client calls are
\* plain blocking calls.
AwaitPoints == {}

StartCycle ==
    /\ \/ pc \in {"init", "done", "failed"}
       \/ pc = "run" /\ idx \in AwaitPoints
    /\ pc' = "run"
    /\ idx' = 1
    /\ data' = NewData(data)
    /\ failures' = 0
    /\ mode' \in ModesOf(fault)
    /\ attempts' = << >>
    /\ chosen_label' = 0
    /\ alt_address_used' = -1
    /\ reads' = {}
    /\ log' = {}
    /\ clientOps' = << >>
    /\ decoded' = {}
    /\ prevDecoded' = decoded
    /\ nAttempted' = 0
    /\ nFailed' = 0
    /\ clean' = TRUE
    /\ UNCHANGED <<fail_counts, suppressed, fault, streak>>
    /\ UNCHANGED <<decodeVars, setupVars, entityVars>>

\* if failures == len(self._descriptions): close(); connect()
Reconnect(f) ==
    IF f = Len(descriptions) THEN <<"close", "connect">> ELSE << >>

\* Python's round(): to the nearest integer, ties to the even one.
PyRound(n, d) ==
    LET q == n \div d
        r == n - q * d
    IN  IF 2 * r < d THEN q
        ELSE IF 2 * r > d THEN q + 1
        ELSE IF q % 2 = 0 THEN q ELSE q + 1

\* Mutant: a missing current is read as 0 (data.get(key, 0)).
M_PowerWithoutCurrent(d) ==
    IF "victron_qw_battery_voltage" \in DOMAIN d
       THEN LET v == d["victron_qw_battery_voltage"]
                c == Get(d, "victron_qw_battery_current", [n |-> 0, d |-> 10])
            IN ("victron_qw_battery_power" :> [n |-> PyRound(v.n * c.n, v.d * c.d), d |-> 1]) @@ d
       ELSE d

\* data["victron_qw_battery_power"] = round(float(v) * float(c))
WithBatteryPower(d) ==
    IF "victron_qw_battery_voltage" \in DOMAIN d /\ "victron_qw_battery_current" \in DOMAIN d
       THEN LET v == d["victron_qw_battery_voltage"]
                c == d["victron_qw_battery_current"]
            IN ("victron_qw_battery_power" :> [n |-> PyRound(v.n * c.n, v.d * c.d), d |-> 1]) @@ d
       ELSE d

\* Mutant: the total PV power default is left out.
M_NoPvDefault(d) ==
    IF "victron_qw_battery_temperature" \notin DOMAIN d
       THEN ("victron_qw_battery_temperature" :> DEFAULT_BATTERY_TEMPERATURE_C) @@ d
       ELSE d

\* the two "if ... not in data" defaults
WithDefaults(d) ==
    LET d1 == IF "victron_qw_battery_temperature" \notin DOMAIN d
                 THEN ("victron_qw_battery_temperature" :> DEFAULT_BATTERY_TEMPERATURE_C) @@ d
                 ELSE d
    IN  IF "total_pv_power" \notin DOMAIN d1
           THEN ("total_pv_power" :> [n |-> 0, d |-> 1]) @@ d1
           ELSE d1

FinishCycle ==
    /\ pc = "run"
    /\ idx = Len(descriptions) + 1
    /\ clientOps' = Reconnect(failures)
    /\ data' = WithDefaults(WithBatteryPower(data))
    /\ pc' = "done"
    /\ idx' = 0
    /\ attempts' = << >>
    /\ chosen_label' = 0
    /\ alt_address_used' = -1
    /\ reads' = {}
    /\ log' = {}
    /\ UNCHANGED <<fail_counts, suppressed, failures, mode, fault,
                   decoded, prevDecoded, streak, nAttempted, nFailed, clean>>
    /\ UNCHANGED <<decodeVars, setupVars, entityVars>>

-----------------------------------------------------------------------------

\* The coordinator as __init__ leaves it, before its first cycle.
EngineInit ==
    /\ fail_counts = EmptyMap
    /\ suppressed = {}
    /\ data = EmptyMap
    /\ failures = 0
    /\ pc = "init"
    /\ idx = 0
    /\ mode = "up"
    /\ fault \in Faults
    /\ attempts = << >>
    /\ chosen_label = 0
    /\ alt_address_used = -1
    /\ reads = {}
    /\ log = {}
    /\ clientOps = << >>
    /\ decoded = {}
    /\ prevDecoded = {}
    /\ streak = [a \in Addresses |-> 0]
    /\ nAttempted = 0
    /\ nFailed = 0
    /\ clean = TRUE

\* Nothing handed to the decoder on its own.
DecodeIdle ==
    /\ dec_in = << >>
    /\ dec_out = << >>

\* No flow step open.
NoInput == [step_id |-> "none", submitted |-> FALSE,
            raw_slave |-> [given |-> FALSE, text |-> << >>]]

NoResult == [type |-> "none", step_id |-> "none", errors |-> EmptyMap,
             data |-> EmptyMap]

\* The sensor platform not set up.
NotSetUp == [result |-> "none", connect |-> "none", refresh |-> "none",
             configured_slave_id |-> 0, polling |-> FALSE]

\* No flow step taken, no entry, platform not set up.
SetupIdle ==
    /\ user_input = NoInput
    /\ flow_result = NoResult
    /\ entry = [exists |-> FALSE, data |-> EmptyMap, options |-> EmptyMap]
    /\ setup_state = NotSetUp
    /\ final_descriptions = << >>
    /\ entities = << >>
    /\ first_reads = {}

\* A Python value an entity can report: None, or the number n/d.
PyNone == [none |-> TRUE, n |-> 0, d |-> 1]
Number(n, d) == [none |-> FALSE, n |-> n, d |-> d]

\* No entity has written a state; the coordinator has no data yet.
NoState == [key |-> "none", native_value |-> PyNone, available |-> FALSE]

EntityIdle ==
    /\ coordinator = [data |-> [none |-> TRUE, dict |-> EmptyMap],
                      last_update_success |-> TRUE]
    /\ hass_state = NoState

Init == EngineInit /\ DecodeIdle /\ SetupIdle /\ EntityIdle

Next == StartCycle \/ ProcessDescription \/ FinishCycle

Spec == Init /\ [][Next]_vars

-----------------------------------------------------------------------------
(* The engine over a transport whose calls may never return *)

\* The read calls issued when the n-th candidate's call is under way.
IssuedCalls(description, n) ==
    LET c == Candidates(description) IN
    { [fn |-> c[i].fn, addr |-> c[i].addr, count |-> RegCount(description),
       slave |-> description.slave_id, key |-> description.key] : i \in 1..n }

\* A read call of the loop step never returns.  The call is a plain call
\* inside the coroutine: the statement after it is never reached and the
\* event loop, which runs the coroutine, runs nothing else ("blocked").
Hang ==
    /\ pc = "run"
    /\ idx <= Len(descriptions)
    /\ IsProbed(descriptions[idx], suppressed)
    /\ \E n \in 1..Len(Candidates(descriptions[idx])) :
           reads' = IssuedCalls(descriptions[idx], n)
    /\ pc' = "blocked"
    /\ attempts' = << >>
    /\ chosen_label' = 0
    /\ alt_address_used' = -1
    /\ log' = {}
    /\ UNCHANGED <<fail_counts, suppressed, data, failures, idx, mode, fault,
                   clientOps, decoded, prevDecoded, streak, nAttempted, nFailed,
                   clean>>
    /\ UNCHANGED <<decodeVars, setupVars, entityVars>>

NextLive == StartCycle \/ ProcessDescription \/ FinishCycle \/ Hang

\* The for loop moves on to the next catalog entry.  Under NextLive the
\* steps that do so are the steps of ProcessDescription, and one is possible
\* in every state inside the loop.
LoopStep ==
    /\ pc = "run"
    /\ idx <= Len(descriptions)
    /\ idx' = idx + 1

\* A coroutine that has been resumed runs to its next await or to its end:
\* inside a cycle the next statement is executed, so the loop does not stay
\* at one catalog entry unless a call hangs there, and after the last entry
\* the cycle ends.  Nothing is assumed about when the timer starts a cycle.
SpecLive ==
    /\ Init
    /\ [][NextLive]_vars
    /\ WF_idx(LoopStep)
    /\ WF_vars(FinishCycle)

-----------------------------------------------------------------------------
(* The decoder of the loop body (sensor.py 164-187) on its own *)

\* The largest 16-bit word.
WordMax == 65535

BoundaryWords ==
    (0..Spread) \cup ((32768 - Spread)..(32768 + Spread))
                \cup ((WordMax - Spread)..WordMax)

\* What the device puts on the wire for a 32-bit value: the high word of its
\* two's-complement image (value div 65536, modulo 2^16) first, then the low
\* word (value mod 65536).
Split(value) == << value.hi % 65536, value.lo >>

\* The 32-bit values of the given type whose words are boundary words.
Values32(data_type) ==
    { Wide(IF data_type = "int32" /\ h >= 32768 THEN h - 65536 ELSE h, l) :
        h \in BoundaryWords, l \in BoundaryWords }

\* The decoder is given every 16-bit word as uint16 and as int16, and the
\* two words of every value of Values32 as uint32 and as int32; the
\* multiplier is 1.0.
InitDecode ==
    /\ EngineInit
    /\ fault = "link"
    /\ SetupIdle
    /\ EntityIdle
    /\ \/ \E t \in {"uint16", "int16"}, w \in 0..WordMax :
             dec_in = [data_type |-> t, multiplier |-> One, sent |-> w,
                       regs |-> << w >>]
       \/ \E t \in {"uint32", "int32"} : \E v \in Values32(t) :
             dec_in = [data_type |-> t, multiplier |-> One, sent |-> v,
                       regs |-> Split(v)]
    /\ dec_out = << >>

\* Lines 164-187 for an accepted response with the register list dec_in.regs:
\* length check, decoding, multiplier, store.
DecodeRegisters ==
    /\ dec_out = << >>
    /\ dec_out' =
          IF ~Decodable(dec_in.regs, dec_in.data_type)
             THEN [stored |-> FALSE, value |-> [n |-> 0, d |-> 1]]
             ELSE [stored |-> TRUE,
                   value |-> ApplyMultiplier(
                                IF dec_in.data_type \in {"uint32", "int32"}
                                   THEN Decode32(dec_in.regs[1], dec_in.regs[2],
                                                 dec_in.data_type)
                                   ELSE Decode16(dec_in.regs[1], dec_in.data_type),
                                dec_in.multiplier)]
    /\ UNCHANGED <<dec_in, engineVars, setupVars, entityVars>>

NextDecode == DecodeRegisters

SpecDecode == InitDecode /\ [][NextDecode]_vars

-----------------------------------------------------------------------------
(* config_flow.py: the two flow steps.  A text is the sequence of its      *)
(* characters.                                                             *)

CONF_SLAVE_ID == "slave_id"

\* Digits[i + 1] is the character of the digit i.
Digits == << "0", "1", "2", "3", "4", "5", "6", "7", "8", "9" >>

RECURSIVE DigitsOf(_)
DigitsOf(n) ==
    IF n < 10 THEN << Digits[n + 1] >>
    ELSE Append(DigitsOf(n \div 10), Digits[(n % 10) + 1])

\* str(n) for an int
str(n) == IF n < 0 THEN << "-" >> \o DigitsOf(0 - n) ELSE DigitsOf(n)

IsDigit(c) == \E i \in 1..Len(Digits) : Digits[i] = c

DigitValue(c) == (CHOOSE i \in 1..Len(Digits) : Digits[i] = c) - 1

RECURSIVE lstrip(_)
lstrip(t) == IF t # << >> /\ Head(t) = " " THEN lstrip(Tail(t)) ELSE t

RECURSIVE rstrip(_)
rstrip(t) ==
    IF t # << >> /\ t[Len(t)] = " " THEN rstrip(SubSeq(t, 1, Len(t) - 1)) ELSE t

RECURSIVE NumberOf(_)
NumberOf(ds) ==
    IF ds = << >> THEN 0
    ELSE NumberOf(SubSeq(ds, 1, Len(ds) - 1)) * 10 + DigitValue(ds[Len(ds)])

\* int(raw_slave): None raises TypeError; a text is stripped of surrounding
\* blanks and must then be an optional sign followed by digits, else
\* ValueError.  (Underscores between digits and non-ASCII digits and blanks,
\* which int() also takes, are in none of the texts submitted here.)
int(raw) ==
    IF ~raw.given THEN [raised |-> "TypeError", value |-> 0]
    ELSE LET t == rstrip(lstrip(raw.text))
             signed == t # << >> /\ Head(t) \in {"-", "+"}
             body == IF signed THEN Tail(t) ELSE t
         IN  IF body = << >> \/ \E i \in 1..Len(body) : ~IsDigit(body[i])
                THEN [raised |-> "ValueError", value |-> 0]
                ELSE [raised |-> "none",
                      value |-> IF signed /\ Head(t) = "-"
                                   THEN 0 - NumberOf(body) ELSE NumberOf(body)]

\* Mutant: the lower end of the range test off by one.
M_ZeroAccepted(slave_val) == slave_val < 0 \/ slave_val > 247

\* if slave_val < 1 or slave_val > 247
OutOfRange(slave_val) == slave_val < 1 \/ slave_val > 247

\* The try block of a step: errors, and the identifier put back into
\* user_input when there is none.
Validate(raw_slave) ==
    LET r == int(raw_slave) IN
    IF r.raised # "none" \/ OutOfRange(r.value)
       THEN [errors |-> (CONF_SLAVE_ID :> "invalid_slave_id"), slave_val |-> 0]
       ELSE [errors |-> EmptyMap, slave_val |-> r.value]

\* What a step returns: async_create_entry(data=user_input) or
\* async_show_form(step_id, errors).
StepResult(step_id, input) ==
    IF ~input.submitted
       THEN [type |-> "form", step_id |-> step_id, errors |-> EmptyMap,
             data |-> EmptyMap]
       ELSE LET v == Validate(input.raw_slave) IN
            IF DOMAIN v.errors = {}
               THEN [type |-> "create_entry", step_id |-> step_id,
                     errors |-> EmptyMap, data |-> (CONF_SLAVE_ID :> v.slave_val)]
               ELSE [type |-> "form", step_id |-> step_id, errors |-> v.errors,
                     data |-> EmptyMap]

\* What is submitted: the decimal texts of the numbers typed, texts that are
\* no plain decimal number, and a submission without the field.  The first
\* step is submitted with every number from -NegTyped to MaxTyped, the
\* options step with those within Spread of the ends of the range (1, 247)
\* and of the two defaults (21, 100).
TypedNumbers(step_id) ==
    IF step_id = "user"
       THEN (0 - NegTyped)..MaxTyped
       ELSE { n \in (0 - NegTyped)..MaxTyped :
                \E c \in {1, SLAVE_ID, 100, 247} : n - c \in (0 - Spread)..Spread }

NumeralTexts(step_id) == { str(n) : n \in TypedNumbers(step_id) }

OtherTexts ==
    { << >>, << "x" >>, << "2", "1", "x" >>, << "1", ".", "5" >>,
      << "2", " ", "1" >>, << "-" >>, << "-", " ", "1" >>,
      << " ", "2", "1", " " >>, << "+", "7" >>, << "0", "0", "7" >>,
      << "-", "0" >>, << "0", "2", "4", "8" >> }

FlowInputs(step_id) ==
    { [step_id |-> step_id, submitted |-> FALSE,
       raw_slave |-> [given |-> FALSE, text |-> << >>]] }
    \cup { [step_id |-> step_id, submitted |-> TRUE,
            raw_slave |-> [given |-> TRUE, text |-> t]] :
                t \in NumeralTexts(step_id) \cup OtherTexts }
    \cup { [step_id |-> step_id, submitted |-> TRUE,
            raw_slave |-> [given |-> FALSE, text |-> << >>]] }

UserStepInputs == FlowInputs("user")

InitStepInputs == FlowInputs("init")

\* ConfigFlow.async_step_user
async_step_user ==
    /\ ~entry.exists
    /\ \E input \in UserStepInputs :
          LET result == StepResult("user", input) IN
          /\ user_input' = input
          /\ flow_result' = result
          /\ entry' = IF result.type = "create_entry"
                         THEN [exists |-> TRUE, data |-> result.data,
                               options |-> EmptyMap]
                         ELSE entry
    /\ UNCHANGED <<setup_state, final_descriptions, entities, first_reads>>
    /\ UNCHANGED <<engineVars, decodeVars, entityVars>>

\* OptionsFlowHandler.async_step_init, opened on the loaded entry.  The
\* options flow is followed until it has stored options once.
async_step_init ==
    /\ entry.exists
    /\ setup_state.result = "loaded"
    /\ DOMAIN entry.options = {}
    /\ \E input \in InitStepInputs :
          LET result == StepResult("init", input) IN
          /\ user_input' = input
          /\ flow_result' = result
          /\ entry' = IF result.type = "create_entry"
                         THEN [entry EXCEPT !.options = result.data]
                         ELSE entry
    /\ UNCHANGED <<setup_state, final_descriptions, entities, first_reads>>
    /\ UNCHANGED <<engineVars, decodeVars, entityVars>>

-----------------------------------------------------------------------------
(* sensor.py async_setup_entry and __init__.py async_unload_entry *)

\* client.connect() returns True or False, or raises ConnectionException.
ConnectOutcomes == {"true", "false", "raise"}

\* await coordinator.async_config_entry_first_refresh() returns with the
\* first snapshot stored, or raises.
FirstRefreshOutcomes == {"snapshot", "UpdateFailed", "ConfigEntryNotReady"}

\* Mutant: the return value of connect() is not looked at.
M_ConnectResultIgnored(outcome) == outcome = "raise"

\* "if not client.connect(): raise ConfigEntryNotReady" and
\* "except ConnectionException: raise ConfigEntryNotReady"
ConnectNotReady(outcome) == outcome \in {"false", "raise"}

\* entry.options.get(CONF_SLAVE_ID, entry.data.get(CONF_SLAVE_ID, SLAVE_ID))
ConfiguredSlaveId(e) ==
    Get(e.options, CONF_SLAVE_ID, Get(e.data, CONF_SLAVE_ID, SLAVE_ID))

\* The read calls of the first cycle of a coordinator just constructed over
\* the catalog: nothing is suppressed yet.
FirstCycleReads(catalog) ==
    UNION { ReadCalls(catalog[i]) :
              i \in { j \in 1..Len(catalog) : IsProbed(catalog[j], {}) } }

\* sensor.py async_setup_entry.  A set-up run starts with no flow step open.
async_setup_entry ==
    /\ entry.exists
    /\ setup_state.result \in {"none", "not_ready"}
    /\ user_input' = NoInput
    /\ flow_result' = NoResult
    /\ \E connect \in ConnectOutcomes :
       \E refresh \in (IF ConnectNotReady(connect) THEN {"none"}
                                                   ELSE FirstRefreshOutcomes) :
          IF ConnectNotReady(connect)
             THEN /\ setup_state' = [result |-> "not_ready", connect |-> connect,
                                     refresh |-> "none",
                                     configured_slave_id |-> 0,
                                     polling |-> FALSE]
                  /\ final_descriptions' = << >>
                  /\ entities' = << >>
                  /\ first_reads' = {}
             ELSE LET configured_slave_id == ConfiguredSlaveId(entry)
                      catalog == FinalDescriptions(configured_slave_id)
                  IN
                  /\ final_descriptions' = catalog
                  /\ first_reads' = FirstCycleReads(catalog)
                  /\ IF refresh # "snapshot"
                        THEN /\ setup_state' = [result |-> "not_ready",
                                                connect |-> connect,
                                                refresh |-> refresh,
                                                configured_slave_id |->
                                                    configured_slave_id,
                                                polling |-> FALSE]
                             /\ entities' = << >>
                        ELSE /\ setup_state' = [result |-> "loaded",
                                                connect |-> connect,
                                                refresh |-> refresh,
                                                configured_slave_id |->
                                                    configured_slave_id,
                                                polling |-> TRUE]
                             /\ entities' = [i \in 1..Len(catalog) |-> catalog[i].key]
    /\ UNCHANGED entry
    /\ UNCHANGED <<engineVars, decodeVars, entityVars>>

\* __init__.py async_unload_entry: the platform is unloaded (on a reload or
\* a restart); the entry stays.
async_unload_entry ==
    /\ setup_state.result = "loaded"
    /\ setup_state' = NotSetUp
    /\ final_descriptions' = << >>
    /\ entities' = << >>
    /\ first_reads' = {}
    /\ UNCHANGED <<user_input, flow_result, entry>>
    /\ UNCHANGED <<engineVars, decodeVars, entityVars>>

InitSetup ==
    /\ EngineInit
    /\ fault = "link"
    /\ DecodeIdle
    /\ SetupIdle
    /\ EntityIdle

NextSetup ==
    async_step_user \/ async_step_init \/ async_setup_entry \/ async_unload_entry

SpecSetup == InitSetup /\ [][NextSetup]_vars

-----------------------------------------------------------------------------
(* sensor.py, VictronSensor: what an entity reports of its coordinator *)

\* The identifiers of the entities: one per catalog entry.
EntityKeys == {descriptions[i].key : i \in 1..Len(descriptions)}

\* "if self.coordinator.data:": neither None nor an empty dict.
Truthy(obj) == ~obj.none /\ DOMAIN obj.dict # {}

\* dict.get(key): the value stored under key, None without one.
DictGet(dict, key) == IF key \in DOMAIN dict THEN dict[key] ELSE PyNone

\* Mutant: without the branch for a coordinator that has no data.
M_NativeValueOfDataOnly(c, key) ==
    LET value == DictGet(c.data.dict, key) IN
    IF value = PyNone /\ key = "total_pv_power" /\ Truthy(c.data)
       THEN Number(0, 1)
       ELSE value

\* VictronSensor.native_value for the entity of description key
native_value(c, key) ==
    IF Truthy(c.data)
       THEN LET value == DictGet(c.data.dict, key) IN
            IF value = PyNone /\ key = "total_pv_power"
               THEN Number(0, 1)
               ELSE value
       ELSE IF key = "total_pv_power" THEN Number(0, 1) ELSE PyNone

\* VictronSensor.available
available(c) == c.last_update_success

\* The snapshots the entities are exercised on: every dict over a subset of
\* three identifiers with values among None, 0, -7 and 48.3, and the
\* snapshot of a cycle in which every measurement failed (the two defaults).
SnapshotKeys ==
    {"total_pv_power", "victron_qw_battery_voltage", "victron_qw_grid_l1"}

SnapshotValues == {PyNone, Number(0, 1), Number(-7, 1), Number(483, 10)}

AllFailedSnapshot ==
    LET d == WithDefaults(WithBatteryPower(EmptyMap)) IN
    [k \in DOMAIN d |-> Number(d[k].n, d[k].d)]

Snapshots ==
    UNION {[K -> SnapshotValues] : K \in SUBSET SnapshotKeys}
       \cup {AllFailedSnapshot}

\* What the entity can find in its coordinator: no data yet (None) or a
\* snapshot, after a refresh that succeeded or one that did not.
CoordinatorStates ==
    [data : {[none |-> TRUE, dict |-> EmptyMap]}
               \cup {[none |-> FALSE, dict |-> dict] : dict \in Snapshots},
     last_update_success : BOOLEAN]

\* async_write_ha_state of one entity: the state machine of the host reads
\* the two properties.
async_write_ha_state ==
    /\ \E key \in EntityKeys :
          hass_state' = [key |-> key,
                         native_value |-> native_value(coordinator, key),
                         available |-> available(coordinator)]
    /\ UNCHANGED <<coordinator, engineVars, decodeVars, setupVars>>

InitEntity ==
    /\ EngineInit
    /\ fault = "link"
    /\ DecodeIdle
    /\ SetupIdle
    /\ coordinator \in CoordinatorStates
    /\ hass_state = NoState

NextEntity == async_write_ha_state

SpecEntity == InitEntity /\ [][NextEntity]_vars

-----------------------------------------------------------------------------
(* Properties *)

\* The step about to be taken processes the catalog entry descriptions[idx].
InLoop == pc = "run" /\ idx <= Len(descriptions)

HasOk(att) == \E i \in 1..Len(att) : att[i].res.kind = "ok"

\* C1: an address whose measurement has failed (every probe raised or
\* returned an exception response) in at most 11 consecutive cycles is not
\* suppressed; with the 12th consecutive failed cycle it is in
\* the suppressed set; and a loop step for a measurement whose base address
\* is suppressed issues no transport read.
C1_FailureStreak ==
    [][ \A a \in Addresses :
          /\ (streak'[a] <= 11 => a \notin suppressed')
          /\ (streak'[a] >= 12 => a \in suppressed')
          /\ ((InLoop /\ descriptions[idx].register = a /\ a \in suppressed)
                => (reads' = {} /\ attempts' = << >>)) ]_vars

\* An address that failed 12 cycles in a row is suppressed, and the step of a
\* later cycle has just skipped its measurement without a read.
C1_Witness ==
    /\ pc = "run"
    /\ idx = 12
    /\ fault = "victron_qw_battery_voltage"
    /\ streak[840] = 12
    /\ 840 \in suppressed
    /\ reads = {}
    /\ 841 \notin suppressed

\* C2: no transport read call is issued to an address that is in the
\* suppressed set when the call is made (the claim as stated; the base-1
\* probes of the measurement at A+1 still read A).
C2_NoReadOfSuppressedAddress ==
    [][ \A r \in reads' : r.addr \notin suppressed ]_vars

\* C3: a loop step for an address whose counter is n, 0 < n < 12, in which
\* the transport gives a non-error response to one of the probes leaves the
\* counter at 0 and the address unsuppressed; and an address is suppressed
\* only with a streak of 12 failed cycles behind it.
C3_Recovery ==
    [][ \A a \in Addresses :
          /\ ((InLoop /\ descriptions[idx].register = a
                /\ a \in DOMAIN fail_counts
                /\ fail_counts[a] > 0 /\ fail_counts[a] < 12
                /\ HasOk(attempts'))
              => (a \in DOMAIN fail_counts' /\ fail_counts'[a] = 0
                  /\ a \notin suppressed' /\ streak'[a] = 0))
          /\ (a \in suppressed' => streak'[a] >= 12) ]_vars

\* A probe has just been accepted after 11 failed cycles.
C3_Witness ==
    /\ pc = "run"
    /\ chosen_label # 0
    /\ \E e \in log : e.ev = "recovered" /\ e.register = 840 /\ e.count = 11
    /\ 840 \in DOMAIN fail_counts
    /\ fail_counts[840] = 0
    /\ 840 \notin suppressed

\* C4: no step removes an address from the suppressed set.
C4_SuppressionLatch ==
    [][ suppressed \subseteq suppressed' ]_vars

\* With one address suppressed, a later cycle with the link up has decoded
\* other measurements and skipped the suppressed one.
C4_Witness ==
    /\ pc = "done"
    /\ 1052 \in suppressed
    /\ nAttempted = 14
    /\ Cardinality(decoded) = 14

\* C5: a completed cycle in which measurements were probed and none of them
\* got a non-error response has closed and reopened the transport (the claim
\* as stated; the code compares the count of gateway failures with the
\* length of the catalog, which counts the computed entry too).
C5_ReconnectOnTotalFailure ==
    (pc = "done" /\ nAttempted > 0 /\ nFailed = nAttempted)
        => clientOps = <<"close", "connect">>

\* C6: when the probes input@A, holding@A and holding@A-1 fail and input@A-1
\* returns the words asked for, the step accepts the third attempt, stores
\* its decoded value under the measurement's key, resets the counter of A
\* (creating none, and leaving that of A-1 alone), and flags A-1 as the
\* address served from; no read goes to an address below 0.
C6_FallbackAccepted ==
    [][ /\ (InLoop /\ Len(attempts') = 4
              /\ attempts'[1].res.kind # "ok"
              /\ attempts'[2].res.kind # "ok"
              /\ attempts'[4].res.kind # "ok"
              /\ attempts'[3].res.kind = "ok"
              /\ Len(attempts'[3].res.registers) >= RegCount(descriptions[idx]))
            => LET description == descriptions[idx]
                   A == description.register
                   regs == attempts'[3].res.registers
               IN  /\ A > 0
                   /\ attempts'[3].label = [fn |-> "input", addr |-> A - 1]
                   /\ chosen_label' = 3
                   /\ alt_address_used' = A - 1
                   /\ \E e \in log' : e.ev = "alt_address" /\ e.register = A
                   /\ description.key \in DOMAIN data'
                   /\ data'[description.key] =
                         ApplyMultiplier(Decode(regs, description.data_type),
                                         description.multiplier)
                   /\ DOMAIN fail_counts' = DOMAIN fail_counts
                   /\ \A a \in DOMAIN fail_counts :
                         fail_counts'[a] = IF a = A THEN 0 ELSE fail_counts[a]
                   /\ suppressed' = suppressed
                   /\ streak'[A] = 0
        /\ \A r \in reads' : r.addr >= 0 ]_vars

\* The battery voltage has just been served from input@839 after one failed
\* cycle.
C6_Witness ==
    /\ pc = "run"
    /\ idx = 12
    /\ Len(attempts) = 4
    /\ attempts[1].res.kind = "exception"
    /\ attempts[2].res.kind = "error"
    /\ attempts[4].res.kind = "error"
    /\ attempts[3].res.kind = "ok"
    /\ chosen_label = 3
    /\ alt_address_used = 839
    /\ 840 \in DOMAIN fail_counts
    /\ fail_counts[840] = 0
    /\ "victron_qw_battery_voltage" \in DOMAIN data
    /\ data["victron_qw_battery_voltage"] = [n |-> Word("input", 839), d |-> 10]

\* The first attempt, in the order issued, that is a non-error response with
\* a non-empty register list (0: none).
FirstWithWords(att) ==
    IF \E i \in 1..Len(att) : att[i].res.kind = "ok" /\ att[i].res.registers # << >>
       THEN CHOOSE i \in 1..Len(att) :
                /\ att[i].res.kind = "ok" /\ att[i].res.registers # << >>
                /\ \A j \in 1..(i - 1) :
                      ~(att[j].res.kind = "ok" /\ att[j].res.registers # << >>)
       ELSE 0

\* C7: when some attempt of a step is a non-error response with a non-empty
\* register list, the attempt the step accepts is the first such one; an
\* earlier non-error response with an empty list does not stand in its way
\* (the claim as stated; the code accepts the first non-error response,
\* empty or not, and looks no further).
C7_FirstNonEmptyAccepted ==
    [][ (InLoop /\ FirstWithWords(attempts') # 0)
          => chosen_label' = FirstWithWords(attempts') ]_vars

\* C8: the snapshot of a completed cycle has the battery temperature and the
\* total PV power keys; one that this cycle did not decode carries its
\* default, 25.0 or 0.
C8_DefaultsPresent ==
    pc = "done" =>
        /\ "victron_qw_battery_temperature" \in DOMAIN data
        /\ "total_pv_power" \in DOMAIN data
        /\ ("victron_qw_battery_temperature" \notin decoded
              => data["victron_qw_battery_temperature"] = [n |-> 250, d |-> 10])
        /\ ("total_pv_power" \notin decoded
              => data["total_pv_power"] = [n |-> 0, d |-> 1])

\* A cycle after every address was suppressed: nothing is probed, both keys
\* carry their defaults.
C8_Witness ==
    /\ pc = "done"
    /\ {262, 1052} \subseteq suppressed
    /\ nAttempted = 0
    /\ data["victron_qw_battery_temperature"] = [n |-> 250, d |-> 10]
    /\ data["total_pv_power"] = [n |-> 0, d |-> 1]

Abs(x) == IF x < 0 THEN -x ELSE x

\* C9: the snapshot of a completed cycle has the battery power key exactly
\* when this cycle decoded both battery voltage and battery current; its
\* value is then an integer at distance at most 1/2 from their product
\* (-493 for 48.3 V and -10.2 A); and no read call is issued for the battery
\* power entry.
C9_BatteryPower ==
    /\ \A r \in reads : r.key # "victron_qw_battery_power"
    /\ "victron_qw_battery_power" \notin decoded
    /\ pc = "done" =>
         /\ ("victron_qw_battery_power" \in DOMAIN data
               <=> {"victron_qw_battery_voltage", "victron_qw_battery_current"} \subseteq decoded)
         /\ "victron_qw_battery_power" \in DOMAIN data =>
               LET p == data["victron_qw_battery_power"]
                   v == data["victron_qw_battery_voltage"]
                   c == data["victron_qw_battery_current"]
               IN  /\ p.d = 1
                   /\ 2 * Abs(p.n * (v.d * c.d) - v.n * c.n) <= v.d * c.d
                   /\ (v = [n |-> 483, d |-> 10] /\ c = [n |-> -102, d |-> 10]
                         => p.n = -493)

\* 48.3 V and -10.2 A were read and the snapshot holds -493.
C9_Witness ==
    /\ pc = "done"
    /\ "victron_qw_battery_power" \in DOMAIN data
    /\ data["victron_qw_battery_voltage"] = [n |-> 483, d |-> 10]
    /\ data["victron_qw_battery_current"] = [n |-> -102, d |-> 10]
    /\ data["victron_qw_battery_power"] = [n |-> -493, d |-> 1]

\* C10: every key of the dict after a step is one the dict of this cycle
\* already held, or is decoded by this step from a response of this step, or
\* is put there by the end of the cycle as the value derived from this
\* cycle's voltage and current or as a declared default.  (The first step of
\* a cycle therefore leaves the dict empty.)
C10_NoStaleValues ==
    [][ \A k \in DOMAIN data' :
          \/ (pc = "run" /\ k \in DOMAIN data /\ data'[k] = data[k])
          \/ (InLoop /\ k = descriptions[idx].key
                /\ \E i \in 1..Len(attempts') :
                      /\ attempts'[i].res.kind = "ok"
                      /\ Len(attempts'[i].res.registers) >= RegCount(descriptions[idx])
                      /\ data'[k] = ApplyMultiplier(
                                       Decode(attempts'[i].res.registers,
                                              descriptions[idx].data_type),
                                       descriptions[idx].multiplier))
          \/ (pc' = "done" /\ k = "victron_qw_battery_power"
                /\ {"victron_qw_battery_voltage", "victron_qw_battery_current"}
                      \subseteq (DOMAIN data \cap decoded)
                /\ 2 * Abs(data'[k].n * 100 - data["victron_qw_battery_voltage"].n
                                               * data["victron_qw_battery_current"].n) <= 100)
          \/ (pc' = "done" /\ k = "victron_qw_battery_temperature"
                /\ data'[k] = [n |-> 250, d |-> 10])
          \/ (pc' = "done" /\ k = "total_pv_power"
                /\ data'[k] = [n |-> 0, d |-> 1]) ]_vars

\* The battery voltage was decoded in the previous cycle and failed in this
\* one: the snapshot does not have it (nor the power derived from it).
C10_Witness ==
    /\ pc = "done"
    /\ "victron_qw_battery_voltage" \in prevDecoded
    /\ "victron_qw_battery_voltage" \notin decoded
    /\ 840 \in DOMAIN fail_counts
    /\ fail_counts[840] = 1
    /\ "victron_qw_battery_voltage" \notin DOMAIN data
    /\ "victron_qw_battery_power" \notin DOMAIN data
    /\ "victron_qw_battery_current" \in DOMAIN data

\* The dict after the loop over descriptions[1..n] of a cycle run from the
\* state in which the coordinator was constructed (no counter, nothing
\* suppressed) in which every probe returns the words asked for.
RECURSIVE FreshLoop(_)
FreshLoop(n) ==
    IF n = 0 THEN EmptyMap
    ELSE LET description == descriptions[n] IN
         IF description.key = "victron_qw_battery_power"
            THEN FreshLoop(n - 1)
            ELSE DataOnSuccess(FreshLoop(n - 1), description,
                               Image("input", description.register, RegCount(description)))

\* The snapshot that cycle returns.
FreshSnapshot == WithDefaults(WithBatteryPower(FreshLoop(Len(descriptions))))

\* C11: a completed cycle with nothing suppressed in which every probe
\* returned the words asked for has the snapshot that the same responses give
\* in the first cycle after construction, whatever the failure counters were
\* when it started and whatever the cycles before it did; any two such
\* cycles therefore have the same snapshot.
C11_Idempotence ==
    (pc = "done" /\ clean /\ suppressed = {}) => data = FreshSnapshot

\* Such a cycle has completed after one in which the battery voltage failed
\* (the counter of 840 was not 0 when it started, the snapshot before it was
\* a different one).
C11_Witness ==
    /\ pc = "done"
    /\ clean
    /\ suppressed = {}
    /\ nAttempted = 15
    /\ "victron_qw_battery_voltage" \notin prevDecoded
    /\ "victron_qw_battery_current" \in prevDecoded
    /\ 840 \in DOMAIN fail_counts
    /\ fail_counts[840] = 0
    /\ data = FreshSnapshot
    /\ Cardinality(DOMAIN data) = 16

\* C16: a loop step always hands over to the next catalog entry, whatever
\* its probes raised or returned; the step after the last entry runs the
\* derived-value stage and returns a dict; the cycle never ends with an
\* exception; and inside a cycle there is always a next step to take.
C16_FailureNeverAborts ==
    /\ [](pc = "run" => ENABLED (ProcessDescription \/ FinishCycle))
    /\ [][ /\ (InLoop => (pc' = "run" /\ idx' = idx + 1))
           /\ ((pc = "run" /\ ~InLoop)
                 => (pc' = "done"
                     /\ data' = WithDefaults(WithBatteryPower(data))))
           /\ pc' # "failed" ]_vars

\* A cycle in which every read call raised has completed: all 15 measurements
\* were probed, all failed, and a snapshot (the two defaults) was returned.
C16_Witness ==
    /\ pc = "done"
    /\ mode = "exc"
    /\ nAttempted = 15
    /\ nFailed = 15
    /\ DOMAIN data = {"victron_qw_battery_temperature", "total_pv_power"}

\* C17: a cycle in which measurements were probed and every one of them
\* failed ends with the update failure, and a cycle that ends with the
\* update failure is one in which all of them failed (the claim as stated;
\* the code returns a dict from every cycle).
C17_AllFailedIsReported ==
    /\ (pc = "done" => ~(nAttempted > 0 /\ nFailed = nAttempted))
    /\ (pc = "failed" => (nAttempted > 0 /\ nFailed = nAttempted))

\* C18: a step for a 32-bit measurement whose accepted response carries
\* fewer than 2 words stores nothing under the measurement's key and leaves
\* the counter of its address one higher than it was (the claim as stated;
\* the code has reset the counter before it looks at the words).
C18_ShortResponseCounted ==
    [][ (InLoop /\ descriptions[idx].data_type \in {"int32", "uint32"}
           /\ chosen_label' # 0
           /\ Len(attempts'[chosen_label'].res.registers) = 1)
          => LET A == descriptions[idx].register IN
             /\ descriptions[idx].key \notin DOMAIN data'
             /\ A \in DOMAIN fail_counts'
             /\ fail_counts'[A] = Get(fail_counts, A, 0) + 1 ]_vars

\* C20: a step taken inside a cycle is the next step of that same cycle: the
\* loop step for the entry at hand, which touches the counter and the
\* suppression of that entry's address only, or the end of the cycle, which
\* touches neither.  No cycle starts while one is inside its loop.
C20_NoOverlap ==
    [][ pc = "run" =>
          \/ /\ InLoop
             /\ pc' = "run"
             /\ idx' = idx + 1
             /\ \A a \in Addresses \ {descriptions[idx].register} :
                   /\ Get(fail_counts', a, -1) = Get(fail_counts, a, -1)
                   /\ (a \in suppressed' <=> a \in suppressed)
          \/ /\ ~InLoop
             /\ pc' \in {"done", "failed"}
             /\ fail_counts' = fail_counts
             /\ suppressed' = suppressed ]_vars

\* The third cycle in a row is inside its loop, past the battery voltage,
\* and the counter of 840 holds the failures of all three.
C20_Witness ==
    /\ pc = "run"
    /\ idx = 13
    /\ streak[840] = 3
    /\ 840 \in DOMAIN fail_counts
    /\ fail_counts[840] = 3
    /\ "victron_qw_battery_current" \in DOMAIN data
    /\ "victron_qw_battery_current" \in prevDecoded

\* C12: for every 16-bit word w with multiplier 1.0, the value stored for
\* <<w>> as uint16 is w, and as int16 it is w when w < 0x8000 and w - 0x10000
\* otherwise: an integer in -32768..32767 congruent to w modulo 65536.
C12_Decode16 ==
    (dec_out # << >> /\ dec_in.data_type \in {"uint16", "int16"})
      => LET w == dec_in.sent
             value == dec_out.value
         IN  /\ dec_out.stored
             /\ value.d = 1
             /\ (dec_in.data_type = "uint16" => value.n = w)
             /\ (dec_in.data_type = "int16" =>
                   /\ value.n = (IF w < 32768 THEN w ELSE w - 65536)
                   /\ value.n \in -32768..32767
                   /\ (value.n - w) % 65536 = 0)

\* The word 0x8000 has been decoded as int16 to -32768.
C12_Witness ==
    /\ dec_out # << >>
    /\ dec_in.data_type = "int16"
    /\ dec_in.regs = << 32768 >>
    /\ dec_out.value = [n |-> -32768, d |-> 1]

\* C13: for every 32-bit value sent as the two words of its two's-complement
\* image, high word first, the value stored for them is the value sent:
\* unsigned for uint32 (0..2^32-1), signed for int32 (-2^31..2^31-1); and
\* splitting the stored value gives back the two words.
C13_Decode32RoundTrip ==
    (dec_out # << >> /\ dec_in.data_type \in {"uint32", "int32"})
      => /\ dec_out.stored
         /\ dec_out.value.d = 1
         /\ dec_out.value.n = dec_in.sent
         /\ Split(dec_out.value.n) = dec_in.regs
         /\ dec_out.value.n.lo \in 0..65535
         /\ (dec_in.data_type = "uint32" => dec_out.value.n.hi \in 0..65535)
         /\ (dec_in.data_type = "int32" => dec_out.value.n.hi \in -32768..32767)

\* -2^31 (words 0x8000, 0x0000) has been decoded as int32.
C13_Witness ==
    /\ dec_out # << >>
    /\ dec_in.data_type = "int32"
    /\ dec_in.regs = << 32768, 0 >>
    /\ dec_out.value.n = Wide(-32768, 0)

\* The decimal text of every number typed.
TextOf == [n \in (0 - NegTyped)..MaxTyped |-> str(n)]

\* C14: a flow step submitted with a device identifier text returns
\* create_entry exactly when the text is a decimal number (blanks around it,
\* a sign and leading zeros allowed) from 1 to 247, and then stores that
\* number as an integer (the first step in the entry's data, the options
\* step in its options); submitted with anything else (a number below 1 or
\* above 247, a text that is no number, no text at all) it stores nothing
\* and returns its form with the error invalid_slave_id.  Every identifier
\* held by the entry, by a catalog built from it and by a read call of a
\* first refresh is from 1 to 247.
C14_InvalidRejected ==
    /\ (flow_result.type # "none" /\ user_input.submitted) =>
          LET raw == user_input.raw_slave
              stored == IF user_input.step_id = "user" THEN entry.data
                                                       ELSE entry.options
              accepted(n) ==
                  /\ flow_result.type = "create_entry"
                  /\ flow_result.data = (CONF_SLAVE_ID :> n)
                  /\ entry.exists
                  /\ stored = (CONF_SLAVE_ID :> n)
              rejected ==
                  /\ flow_result.type = "form"
                  /\ flow_result.step_id = user_input.step_id
                  /\ flow_result.errors = (CONF_SLAVE_ID :> "invalid_slave_id")
                  /\ DOMAIN stored = {}
          IN  /\ ~raw.given => rejected
              /\ \A n \in DOMAIN TextOf :
                    (raw.given /\ raw.text = TextOf[n])
                       => (IF n >= 1 /\ n <= 247 THEN accepted(n) ELSE rejected)
              /\ (raw.given /\ raw.text \in
                     { << >>, << "x" >>, << "2", "1", "x" >>, << "1", ".", "5" >>,
                       << "2", " ", "1" >>, << "-" >>, << "-", " ", "1" >>,
                       << "-", "0" >>, << "0", "2", "4", "8" >> })
                    => rejected
              /\ (raw.given /\ raw.text = << " ", "2", "1", " " >>) => accepted(21)
              /\ (raw.given /\ raw.text \in { << "+", "7" >>, << "0", "0", "7" >> })
                    => accepted(7)
    /\ \A k \in DOMAIN entry.data : entry.data[k] \in 1..247
    /\ \A k \in DOMAIN entry.options : entry.options[k] \in 1..247
    /\ \A i \in 1..Len(final_descriptions) :
          final_descriptions[i].slave_id \in 1..247
    /\ \A r \in first_reads : r.slave \in 1..247

\* On an entry created with 247, the options step has been submitted with
\* "248" and has shown its form again with the error.
C14_Witness ==
    /\ user_input.step_id = "init"
    /\ user_input.submitted
    /\ user_input.raw_slave.text = << "2", "4", "8" >>
    /\ flow_result.type = "form"
    /\ flow_result.errors = (CONF_SLAVE_ID :> "invalid_slave_id")
    /\ entry.data = (CONF_SLAVE_ID :> 247)
    /\ DOMAIN entry.options = {}

\* C15: a catalog built by a set-up run for the configured identifier o is
\* the grid descriptors, then the battery descriptors, then the PV
\* descriptors, with no key twice; a PV descriptor has the identifier o and is
\* otherwise the static one (so it is the static one when o is 21); o is the
\* identifier the entry holds (its options before its data) unless options
\* were stored after the run; and every read call of the first refresh
\* carries the identifier of its measurement's descriptor, four calls for
\* each measurement that is read.
C15_CatalogResolution ==
    final_descriptions # << >> =>
        LET o == setup_state.configured_slave_id
            cat == final_descriptions
            g == Len(GRID_SENSORS)
            b == Len(BATTERY_SENSORS)
        IN  /\ o \in 1..247
            /\ (~(flow_result.type = "create_entry" /\ flow_result.step_id = "init")
                  => o = ConfiguredSlaveId(entry))
            /\ Len(cat) = g + b + Len(PV_SENSORS)
            /\ SubSeq(cat, 1, g) = GRID_SENSORS
            /\ SubSeq(cat, g + 1, g + b) = BATTERY_SENSORS
            /\ \A i \in 1..Len(PV_SENSORS) :
                  LET d == cat[g + b + i]
                      static == PV_SENSORS[i]
                  IN  /\ d.slave_id = o
                      /\ d.key = static.key
                      /\ d.register = static.register
                      /\ d.data_type = static.data_type
                      /\ d.multiplier = static.multiplier
                      /\ (o = SLAVE_ID => d = static)
            /\ \A i, j \in 1..Len(cat) : cat[i].key = cat[j].key => i = j
            /\ \A i \in 1..Len(cat) :
                  LET calls == { r \in first_reads : r.key = cat[i].key } IN
                  /\ \A r \in calls : r.slave = cat[i].slave_id
                  /\ Cardinality(calls) =
                        (IF cat[i].key = "victron_qw_battery_power" THEN 0 ELSE 4)

\* The entry was created with 21 and its options later set to 247; the
\* platform, set up again, reads the total PV power from device 247 and the
\* battery voltage from device 100.
C15_Witness ==
    /\ setup_state.result = "loaded"
    /\ entry.data = (CONF_SLAVE_ID :> 21)
    /\ entry.options = (CONF_SLAVE_ID :> 247)
    /\ Len(final_descriptions) = 16
    /\ final_descriptions[16].key = "total_pv_power"
    /\ final_descriptions[16].slave_id = 247
    /\ [fn |-> "holding", addr |-> 1051, count |-> 2, slave |-> 247,
         key |-> "total_pv_power"] \in first_reads
    /\ [fn |-> "input", addr |-> 840, count |-> 1, slave |-> 100,
         key |-> "victron_qw_battery_voltage"] \in first_reads

\* C19: a set-up run ends not ready exactly when connect returned false or
\* raised or the first refresh raised, and loaded exactly when connect
\* returned true and the first refresh returned; not ready, no entity has
\* been added and nothing polls; after a failed connect no coordinator was
\* made and no read issued; loaded, one entity per catalog entry has been
\* added.
C19_SetupNotReady ==
    setup_state.result # "none" =>
        LET ok == setup_state.connect = "true" /\ setup_state.refresh = "snapshot"
        IN  /\ setup_state.result \in {"loaded", "not_ready"}
            /\ (setup_state.result = "loaded" <=> ok)
            /\ (~ok => (entities = << >> /\ ~setup_state.polling))
            /\ (setup_state.connect # "true"
                  => (final_descriptions = << >> /\ first_reads = {}))
            /\ (ok => /\ setup_state.polling
                      /\ Len(entities) = Len(final_descriptions)
                      /\ \A i \in 1..Len(entities) :
                            entities[i] = final_descriptions[i].key)

\* connect() has returned false: the run ended not ready with nothing added.
C19_Witness ==
    /\ entry.exists
    /\ setup_state.result = "not_ready"
    /\ setup_state.connect = "false"
    /\ entities = << >>
    /\ first_reads = {}

-----------------------------------------------------------------------------
(* Properties of the engine: execution context, diagnostics, probing, the  *)
(* cycle-level counter, the tracker                                        *)

\* The loop step just taken probed a measurement and accepted no response.
FailedStep == attempts' # << >> /\ chosen_label' = 0

\* C21: every read call of a cycle is issued at a point where the coroutine
\* awaits (the call is handed to a worker and the event loop is free while
\* it is under way), and so are close() and connect() of the reconnect
\* heuristic (the claim as stated; the code calls the blocking client on the
\* event loop and has no await).
C21_TransportOffPrimaryContext ==
    [][ /\ (reads' # {} => idx \in AwaitPoints)
        /\ (clientOps' # << >> => idx \in AwaitPoints) ]_vars

\* C22: for a loop step that leaves the counter of its address at c with no
\* response accepted, a failed-read diagnostic ("read failed" with the
\* exception codes, or "read error: no response") is emitted exactly when
\* c <= 3 or c is a multiple of 3 (the claim as stated; when every probe
\* raised, the code emits "no response" for every c).
C22_DiagnosticCadence ==
    [][ (InLoop /\ FailedStep)
          => LET c == fail_counts'[descriptions[idx].register] IN
             ((\E e \in log' : e.ev \in {"read_failed", "no_response"})
                 <=> (c <= 3 \/ c % 3 = 0)) ]_vars

\* C23: in a loop step that accepts the response of a candidate probe, no
\* read call is issued for a candidate that comes after the accepted one
\* (the claim as stated; the code issues the read calls of all candidates
\* before it looks at any response).
C23_LazyProbes ==
    [][ (InLoop /\ chosen_label' # 0)
          => \A r \in reads' :
                \E i \in 1..chosen_label' :
                    attempts'[i].label = [fn |-> r.fn, addr |-> r.addr] ]_vars

\* C24: when the loop over the catalog has ended, the cycle-level counter
\* "failures" is the number of measurements probed in the cycle for which no
\* response was accepted (the claim as stated; the code counts only those
\* with an exception response of code 10 among their probes).
C24_FailuresCountsFailed ==
    (pc = "run" /\ idx = Len(descriptions) + 1) => failures = nFailed

\* C25: in every state, between cycles and inside one, every tracked address
\* has a counter in 0..12, the suppressed addresses are the tracked ones whose
\* counter is 12, and no step changes the counter of a suppressed address.
C25_TrackerInvariant ==
    /\ [] /\ suppressed \subseteq DOMAIN fail_counts
          /\ \A a \in DOMAIN fail_counts :
                /\ fail_counts[a] \in 0..SuppressThreshold
                /\ (a \in suppressed <=> fail_counts[a] = SuppressThreshold)
    /\ [][ \A a \in suppressed :
              /\ a \in DOMAIN fail_counts'
              /\ fail_counts'[a] = fail_counts[a] ]_vars

\* A cycle after the one that suppressed 840 has completed: it skipped the
\* battery voltage (14 measurements probed), 840 is still at 12 and the
\* counter of another tracked address is below it.
C25_Witness ==
    /\ pc = "done"
    /\ suppressed = {840}
    /\ 840 \in DOMAIN fail_counts
    /\ fail_counts[840] = SuppressThreshold
    /\ nAttempted = 14
    /\ streak[840] = SuppressThreshold

\* C27: a loop step for a measurement with base address A leaves the tracker
\* as it was for every address but A: no entry is created, no counter changes
\* and the suppression of no other address changes, that of A - 1 included;
\* the step for the computed battery power changes nothing of the tracker,
\* and address 0 is never tracked.
C27_TrackerFrame ==
    /\ [](0 \notin DOMAIN fail_counts /\ 0 \notin suppressed)
    /\ [][ InLoop =>
             LET A == descriptions[idx].register IN
             /\ DOMAIN fail_counts' \subseteq DOMAIN fail_counts \cup {A}
             /\ \A a \in (DOMAIN fail_counts \cup suppressed \cup suppressed'
                            \cup {A - 1}) \ {A} :
                   /\ (a \in DOMAIN fail_counts' <=> a \in DOMAIN fail_counts)
                   /\ Get(fail_counts', a, 0) = Get(fail_counts, a, 0)
                   /\ (a \in suppressed' <=> a \in suppressed)
             /\ (descriptions[idx].key = "victron_qw_battery_power"
                   => (fail_counts' = fail_counts /\ suppressed' = suppressed)) ]_vars

\* The battery current (841) has just been accepted from input@840 after a
\* cycle in which it failed, all four probes, those at 840 included: its own
\* counter is back at 0 and there is no entry for 840.
C27_Witness ==
    /\ pc = "run"
    /\ idx = 13
    /\ chosen_label = 3
    /\ alt_address_used = 840
    /\ 841 \in DOMAIN fail_counts
    /\ fail_counts[841] = 0
    /\ 840 \notin DOMAIN fail_counts
    /\ 840 \notin suppressed
    /\ \E e \in log : e.ev = "recovered"

\* C26: if no transport call hangs, every cycle that has started returns;
\* a loop step issues the read calls of all candidates of a probed
\* measurement, 4 when its base address is above 0 and 2 when it is 0, and
\* none for a suppressed or computed one; no read is issued outside the loop
\* steps; and once a call hangs, no step of this cycle or of a later one is
\* possible.
C26_CycleTerminates ==
    /\ ([](pc # "blocked") => ((pc = "run") ~> (pc = "done")))
    /\ [](pc = "blocked" => ~ENABLED NextLive)
    /\ [][ /\ ((InLoop /\ pc' # "blocked") =>
                 Cardinality(reads') =
                    IF ~IsProbed(descriptions[idx], suppressed) THEN 0
                    ELSE IF descriptions[idx].register > 0 THEN 4 ELSE 2)
           /\ (~InLoop => reads' = {}) ]_vars

\* A cycle has returned and the next one is blocked in the third read call of
\* the battery current, after 11 measurements with 4 read calls each.
C26_Witness ==
    /\ pc = "blocked"
    /\ idx = 12
    /\ nAttempted = 11
    /\ Cardinality(reads) = 3
    /\ prevDecoded # {}
    /\ "victron_qw_battery_voltage" \in decoded

\* C28: the state written by the total PV power entity carries a value in
\* every case: the snapshot's value when the snapshot has one under its
\* identifier, and 0 when there is no snapshot yet, when the snapshot is
\* empty and when it has nothing under the identifier; the state written by
\* any other entity carries the snapshot's value for its identifier, and no
\* value without one; an entity is available exactly when the coordinator's
\* last refresh succeeded.
C28_EntityState ==
    hass_state.key # "none" =>
        LET dict == coordinator.data.dict
            held == /\ ~coordinator.data.none
                    /\ hass_state.key \in DOMAIN dict
                    /\ ~dict[hass_state.key].none
        IN  /\ (hass_state.key = "total_pv_power" =>
                   /\ ~hass_state.native_value.none
                   /\ hass_state.native_value =
                         IF held THEN dict["total_pv_power"] ELSE Number(0, 1))
            /\ (hass_state.key # "total_pv_power" =>
                   hass_state.native_value =
                      IF held THEN dict[hass_state.key] ELSE PyNone)
            /\ (hass_state.available <=> coordinator.last_update_success)

\* The total PV power entity has written its state before the first
\* snapshot, after a refresh that did not succeed: value 0, not available.
C28_Witness ==
    /\ hass_state.key = "total_pv_power"
    /\ coordinator.data.none
    /\ ~coordinator.last_update_success
    /\ hass_state.native_value = Number(0, 1)
    /\ ~hass_state.available

====
